---- MODULE Spec2Model ----
(***************************************************************************)
(* State-machine model of the two desktop programs of the repository:      *)
(*   - the image composer (src/합성기.py): ComposerState, GenerateThread,    *)
(*     ImagePool and MainWindow;                                           *)
(*   - the background remover (src/bg_remove.py): RemoveThread and         *)
(*     MainWindow.                                                         *)
(* One behaviour follows one launched program in one environment (variable *)
(* env: the program, the image files and folders the user has at hand and  *)
(* the slider positions the user moves to).  Every GUI handler is one      *)
(* atomic action (it runs to completion on the GUI thread); a worker       *)
(* thread is a sequence of steps that interleave with the handlers.        *)
(*                                                                         *)
(* Units: the scale factors, saturation and brightness are floats in the   *)
(* code (slider / 100.0, 1.0 + slider / 100.0); the model keeps them in    *)
(* hundredths (50 stands for 0.5, 150 for 1.5).  For the image sizes and   *)
(* slider values used here int(width * scale) equals (width * pct) \div 100*)
(* and int((i + 1) / total * 100) equals ((i + 1) * 100) \div total.       *)
(***************************************************************************)
EXTENDS Integers, Sequences, FiniteSets, TLC

VARIABLES
    env,            \* the run's environment, fixed at start (see Environments)
    alive,          \* FALSE once the process has been aborted (qFatal)
    \* ---- composer: MainWindow widgets and attributes
    pool,           \* the four ImagePool list widgets: [bg, left, right, rep]
    sld,            \* the four sliders: [ls, rs, sat, bri]
    state,          \* the ComposerState object
    out_dir,        \* MainWindow.out_dir
    file_counter,   \* MainWindow.file_counter
    btn_gen, btn_rand, btn_new,   \* enabled flags of the three buttons
    prog_visible,   \* the progress bar is shown
    preview_timer,  \* the single-shot debounce timer is running
    lbl_preview,    \* "text" (the hint) or "pixmap" (a rendered preview)
    gen_thread,     \* MainWindow._gen_thread: the GenerateThread
    written,        \* output numbers written since the last new-project
    \* ---- background remover: MainWindow widgets and attributes
    lst,            \* the list widget: the source paths, in order
    _out_dir,       \* MainWindow._out_dir
    btn_run, btn_add,   \* enabled flags of the run and add buttons
    threads,        \* every RemoveThread started, oldest first; the last
                    \* one is MainWindow._thread
    disk,           \* names of the files written to the destination folder
    \* ---- image operations on their own (see UnitSpec)
    thumb,          \* compose: the representative image being fitted
    calls,          \* compose: the calls made on one state, with their results
    mask            \* remove_background: the alpha mask being filtered

units    == <<thumb, calls, mask>>
widgets  == <<pool, sld>>
controls == <<btn_gen, btn_rand, btn_new, prog_visible>>
session  == <<out_dir, file_counter>>
composer_vars == <<pool, sld, state, out_dir, file_counter, btn_gen, btn_rand,
                   btn_new, preview_timer, lbl_preview, gen_thread, written>>
remover_vars == <<lst, _out_dir, btn_run, btn_add, threads, disk>>
vars == <<env, units, alive, prog_visible, composer_vars, remover_vars>>

---------------------------------------------------------------------------
(* Program constants                                                       *)
CANVAS_W == 1800
CANVAS_H == 1200
REP_MAX == 700
\* LEFT_ZONE_END = 0.33 and RIGHT_ZONE_START = 0.67, in hundredths
LEFT_ZONE_END == 33
RIGHT_ZONE_START == 67

(* Bounds of the model                                                     *)
\* random.randint(lo, hi) of an x position is sampled at RandSteps + 1 evenly
\* spaced points
RandSteps == 1
\* a batch may be started while file_counter <= MaxSeq
MaxSeq == 3
\* RemoveThreads started in one run of the background remover
MaxRuns == 2
\* the sides of the representative images fitted on their own reach
\* MaxHalves * (REP_MAX / 2) + 1
MaxHalves == 4
\* calls of compose made on one Composer State
MaxCalls == 2
\* the alpha masks filtered on their own are MaskSide x MaskSide pixels
MaskSide == 3

None == "None"

Max(a, b) == IF a >= b THEN a ELSE b
Min(a, b) == IF a <= b THEN a ELSE b

---------------------------------------------------------------------------
(* The environments: image files, their natural sizes, slider positions,   *)
(* destination folders.                                                    *)
PoolNames == {"bg", "left", "right", "rep"}
SliderNames == {"ls", "rs", "sat", "bri"}
SliderDefault(s) == IF s \in {"ls", "rs"} THEN 50 ELSE 0

\* Image.open(path).width / .height
ImageSize(path) ==
    CASE path = "bg.png"     -> <<1920, 1080>>
      [] path = "banner.png" -> <<2000, 1500>>
      [] path = "tower.png"  -> <<700, 2600>>
      [] path = "leaf.png"   -> <<200, 200>>
      [] path = "wall.png"   -> <<1400, 1000>>
      [] path = "rep_a.png"  -> <<500, 500>>
      [] path = "rep_b.png"  -> <<1400, 700>>
      [] OTHER               -> <<0, 0>>

\* files Image.open cannot decode
Unreadable == {"corrupt.png"}
Readable(path) == path \notin Unreadable

\* A layout session with decorations larger than their zones; the user
\* cancels the destination-folder dialog.
LayoutA ==
    [program |-> "composer",
     files   |-> [bg |-> {"bg.png"}, left |-> {"banner.png"},
                  right |-> {"tower.png"}, rep |-> {"rep_a.png"}],
     sliders |-> [ls |-> {50, 100}, rs |-> {50}, sat |-> {0, 50}, bri |-> {0}],
     dirs    |-> {}]

\* A layout session with a small left decoration and a wide right one.
LayoutB ==
    [program |-> "composer",
     files   |-> [bg |-> {"bg.png"}, left |-> {"leaf.png"},
                  right |-> {"wall.png"}, rep |-> {"rep_a.png"}],
     sliders |-> [ls |-> {50}, rs |-> {50, 100}, sat |-> {0}, bri |-> {-50, 0}],
     dirs    |-> {}]

\* A batch session: a background, two representative images, a folder.
Batch ==
    [program |-> "composer",
     files   |-> [bg |-> {"bg.png"}, left |-> {}, right |-> {},
                  rep |-> {"rep_a.png", "rep_b.png"}],
     sliders |-> [ls |-> {50}, rs |-> {50}, sat |-> {0, 50}, bri |-> {0}],
     dirs    |-> {"out"}]

\* The background remover with the model file and onnxruntime installed:
\* two sources with the same base name.
Remove ==
    [program |-> "bg_remove",
     images  |-> {"a/x.jpg", "b/x.png"},
     dirs    |-> {"out"},
     model_exists |-> TRUE,
     onnxruntime  |-> TRUE]

\* The same installation with a source that cannot be decoded.
RemoveBad == [Remove EXCEPT !.images = {"a/x.jpg", "a/bad.jpg"}]

\* The background remover without ~/.u2net/u2netp.onnx.
RemoveNoModel == [Remove EXCEPT !.model_exists = FALSE, !.images = {"a/x.jpg"}]

\* The background remover where import onnxruntime fails.
RemoveNoRuntime == [Remove EXCEPT !.onnxruntime = FALSE, !.images = {"a/x.jpg"}]


\* A layout session where the background file and the right decoration
\* cannot be decoded.
Faulty ==
    [program |-> "composer",
     files   |-> [bg |-> {"corrupt.png"}, left |-> {"leaf.png"},
                  right |-> {"corrupt.png"}, rep |-> {"rep_a.png"}],
     sliders |-> [ls |-> {50}, rs |-> {50}, sat |-> {0}, bri |-> {0}],
     dirs    |-> {}]

\* A batch session where one of the representative images cannot be decoded.
FaultyBatch ==
    [program |-> "composer",
     files   |-> [bg |-> {"bg.png"}, left |-> {}, right |-> {},
                  rep |-> {"corrupt.png", "rep_a.png"}],
     sliders |-> [ls |-> {50}, rs |-> {50}, sat |-> {0}, bri |-> {0}],
     dirs    |-> {"out"}]

Environments ==
    {LayoutA, LayoutB, Batch, Faulty, FaultyBatch,
     Remove, RemoveBad, RemoveNoModel, RemoveNoRuntime}

\* the files the user can add to a pool, the positions a slider is moved
\* to, the folders QFileDialog.getExistingDirectory can return
PoolFiles(p) == env.files[p]
SliderValues(s) == env.sliders[s]
Dirs == env.dirs

InSeq(f, seq) == \E k \in 1..Len(seq) : seq[k] = f

---------------------------------------------------------------------------
(* ComposerState                                                           *)

\* ComposerState.reset
reset ==
    [backgrounds |-> <<>>, left_elements |-> <<>>, right_elements |-> <<>>,
     rep_images |-> <<>>,
     current_bg |-> None, current_left |-> None, current_right |-> None,
     left_pos |-> <<0, 0>>, right_pos |-> <<0, 0>>,
     left_scale |-> 50, right_scale |-> 50,
     saturation |-> 100, brightness |-> 100,
     locked |-> FALSE]

\* ComposerState._img_size
_img_size(path, scale) ==
    IF Readable(path)
    THEN <<(ImageSize(path)[1] * scale) \div 100,
           (ImageSize(path)[2] * scale) \div 100>>
    ELSE <<200, 200>>

\* random.choice(seq): every element may be drawn
choice(seq) == {seq[k] : k \in 1..Len(seq)}

\* random.randint(lo, hi), sampled
randint(lo, hi) == {lo + ((hi - lo) * k) \div RandSteps : k \in 0..RandSteps}
\* random.randint(lo, hi), sampled at its two ends
randint_ends(lo, hi) == {lo, hi}

\* int(CANVAS_W * LEFT_ZONE_END), int(CANVAS_W * RIGHT_ZONE_START)
LeftZoneEnd    == (CANVAS_W * LEFT_ZONE_END) \div 100
RightZoneStart == (CANVAS_W * RIGHT_ZONE_START) \div 100

\* the upper ends of the ranges _place_elements draws from
\* (left_max_x_canvas: the zone end forgotten, the canvas width used)
left_max_x_canvas(lw) == Max(0, CANVAS_W - lw)
left_max_x(lw) == Max(0, LeftZoneEnd - lw)
right_max_x(rw) == Max(RightZoneStart, CANVAS_W - rw)
place_max_y(h) == Max(0, CANVAS_H - h)

\* ComposerState._place_elements: the set of states it can produce
_place_elements(s) ==
    LET lsz == _img_size(s.current_left, s.left_scale)
        rsz == _img_size(s.current_right, s.right_scale)
        lefts == IF s.current_left # None
                 THEN {<<x, y>> : x \in randint(0, left_max_x(lsz[1])),
                                  y \in randint_ends(0, place_max_y(lsz[2]))}
                 ELSE {s.left_pos}
        rights == IF s.current_right # None
                  THEN {<<x, y>> :
                          x \in randint(RightZoneStart, right_max_x(rsz[1])),
                          y \in randint_ends(0, place_max_y(rsz[2]))}
                  ELSE {s.right_pos}
    IN  {[s EXCEPT !.left_pos = l, !.right_pos = r] : l \in lefts, r \in rights}

\* ComposerState.randomize: the set of states it can produce
randomize(s) ==
    LET bgs == IF s.backgrounds # <<>> THEN choice(s.backgrounds)
               ELSE {s.current_bg}
        ls  == IF s.left_elements # <<>> THEN choice(s.left_elements)
               ELSE {s.current_left}
        rs  == IF s.right_elements # <<>> THEN choice(s.right_elements)
               ELSE {s.current_right}
        picked == {[s EXCEPT !.current_bg = b, !.current_left = l,
                             !.current_right = r] : b \in bgs, l \in ls, r \in rs}
    IN  {[p EXCEPT !.locked = TRUE] : p \in UNION {_place_elements(q) : q \in picked}}

\* the clamp of compose: max(0, min(pos, limit - size))
\* (clamp_none: the stored position used as it is)
clamp_none(pos, size, limit) == pos
clamp(pos, size, limit) == Max(0, Min(pos, limit - size))

Abs(n) == IF n >= 0 THEN n ELSE -n

\* floor(num / den) and ceil(num / den), the two candidates of round_aspect
floor_of(num, den) == num \div den
ceil_of(num, den) == IF num % den = 0 THEN num \div den ELSE (num \div den) + 1

\* round_aspect of Image.thumbnail: of the floor f and the ceiling c the one
\* with the smaller key, the floor on a tie, and at least 1; floor_wins is
\* key(f) <= key(c)
round_aspect(f, c, floor_wins) == Max(IF floor_wins THEN f ELSE c, 1)

\* thumbnail_stretch: each side cut to REP_MAX on its own
thumbnail_stretch(sz) == <<Min(sz[1], REP_MAX), Min(sz[2], REP_MAX)>>

\* Image.thumbnail((REP_MAX, REP_MAX)): the image is left alone when it
\* fits, else the longer side becomes REP_MAX and the other side is the
\* floor or the ceiling of its exact scaled length, whichever keeps the
\* aspect ratio closer.  PIL's keys are |aspect - n / y| for a new width n
\* and |aspect - x / n| (0 for n = 0) for a new height n; they are compared
\* here after multiplying both sides by the positive denominators.
thumbnail(sz) ==
    LET w == sz[1]
        h == sz[2]
        xf == floor_of(REP_MAX * w, h)
        xc == ceil_of(REP_MAX * w, h)
        yf == floor_of(REP_MAX * h, w)
        yc == ceil_of(REP_MAX * h, w)
        x_floor_wins ==
            Abs(REP_MAX * w - xf * h) <= Abs(REP_MAX * w - xc * h)
        y_floor_wins ==
            \/ yf = 0
            \/ Abs(w * yf - REP_MAX * h) * yc <= Abs(w * yc - REP_MAX * h) * yf
    IN  IF REP_MAX >= w /\ REP_MAX >= h THEN sz
        ELSE IF h >= w
             THEN <<round_aspect(xf, xc, x_floor_wins), REP_MAX>>
             ELSE <<REP_MAX, round_aspect(yf, yc, y_floor_wins)>>

\* rx = (CANVAS_W - rep.width) // 2, ry = (CANVAS_H - rep.height) // 2
centre(size, limit) == (limit - size) \div 2

\* one pasted layer
Layer(name, path, x, y, w, h) ==
    [layer |-> name, path |-> path, x |-> x, y |-> y, w |-> w, h |-> h]

\* one layer block of compose, "if path: try: open, resize, paste; except
\* Exception: print": the layers it pastes and the operations it performs
paste(name, path, x, y, size) ==
    IF path = None
    THEN [layers |-> <<>>, ops |-> <<>>]
    ELSE IF Readable(path) /\ size[1] > 0 /\ size[2] > 0
         THEN [layers |-> <<Layer(name, path, x, y, size[1], size[2])>>,
               ops |-> <<<<"paste", name>>>>]
         ELSE [layers |-> <<>>, ops |-> <<<<"error", name>>>>]

\* the four layer blocks of compose
paste_bg(s) == paste("bg", s.current_bg, 0, 0, <<CANVAS_W, CANVAS_H>>)

paste_left(s) ==
    LET lsz == _img_size(s.current_left, s.left_scale)
    IN  paste("left", s.current_left,
              clamp(s.left_pos[1], lsz[1], CANVAS_W),
              clamp(s.left_pos[2], lsz[2], CANVAS_H), lsz)

paste_right(s) ==
    LET rsz == _img_size(s.current_right, s.right_scale)
    IN  paste("right", s.current_right,
              clamp(s.right_pos[1], rsz[1], CANVAS_W),
              clamp(s.right_pos[2], rsz[2], CANVAS_H), rsz)

paste_rep(rep_path) ==
    LET tsz == thumbnail(ImageSize(rep_path))
    IN  paste("rep", rep_path, centre(tsz[1], CANVAS_W),
              centre(tsz[2], CANVAS_H), tsz)

\* the canvas of Image.new and the colour adjustment that ends compose
new_canvas == <<Layer("canvas", None, 0, 0, CANVAS_W, CANVAS_H)>>
enhance == <<<<"convert", "RGB">>, <<"enhance", "Color">>,
             <<"enhance", "Brightness">>>>

\* the image compose returns for the blocks run in the order given
composed(s, b1, b2, b3, b4) ==
    [size   |-> <<CANVAS_W, CANVAS_H>>,
     layers |-> new_canvas \o b1.layers \o b2.layers \o b3.layers \o b4.layers,
     ops    |-> <<<<"new", "canvas">>>> \o b1.ops \o b2.ops \o b3.ops \o b4.ops
                \o enhance,
     saturation |-> s.saturation,
     brightness |-> s.brightness]

\* compose_rep_first: the representative image pasted under the others
compose_rep_first(s, rep_path) ==
    composed(s, paste_rep(rep_path), paste_bg(s), paste_left(s),
             paste_right(s))

\* compose_numbered: the output also depends on the session's file counter
compose_numbered(s, rep_path) ==
    [composed(s, paste_bg(s), paste_left(s), paste_right(s),
              paste_rep(rep_path))
        EXCEPT !.brightness = s.brightness + file_counter]

\* compose_fail_fast: one try block around all four layers, so that the
\* first failure skips the layers after it
compose_fail_fast(s, rep_path) ==
    LET failed(b) == \E k \in 1..Len(b.ops) : b.ops[k][1] = "error"
        skip == [layers |-> <<>>, ops |-> <<>>]
        b1 == paste_bg(s)
        b2 == IF failed(b1) THEN skip ELSE paste_left(s)
        b3 == IF failed(b1) \/ failed(b2) THEN skip ELSE paste_right(s)
        b4 == IF failed(b1) \/ failed(b2) \/ failed(b3) THEN skip
              ELSE paste_rep(rep_path)
    IN  composed(s, b1, b2, b3, b4)

\* ComposerState.compose: the layers pasted, bottom first, the operations
\* performed, and the colour adjustment applied to the flattened canvas
compose(s, rep_path) ==
    composed(s, paste_bg(s), paste_left(s), paste_right(s),
             paste_rep(rep_path))

---------------------------------------------------------------------------
(* Composer MainWindow                                                     *)

\* _sync_state_replace: a sync that also resets the stored positions
_sync_state_replace(s) ==
    [s EXCEPT !.backgrounds    = pool.bg,
              !.left_elements  = pool.left,
              !.right_elements = pool.right,
              !.rep_images     = pool.rep,
              !.left_scale     = sld.ls,
              !.right_scale    = sld.rs,
              !.saturation     = 100 + sld.sat,
              !.brightness     = 100 + sld.bri,
              !.left_pos       = <<0, 0>>,
              !.right_pos      = <<0, 0>>]

\* _sync_state_unlock: a sync that also clears the committed-layout flag
_sync_state_unlock(s) ==
    [s EXCEPT !.backgrounds    = pool.bg,
              !.left_elements  = pool.left,
              !.right_elements = pool.right,
              !.rep_images     = pool.rep,
              !.left_scale     = sld.ls,
              !.right_scale    = sld.rs,
              !.saturation     = 100 + sld.sat,
              !.brightness     = 100 + sld.bri,
              !.locked         = FALSE]

\* MainWindow._sync_state
_sync_state(s) ==
    [s EXCEPT !.backgrounds    = pool.bg,
              !.left_elements  = pool.left,
              !.right_elements = pool.right,
              !.rep_images     = pool.rep,
              !.left_scale     = sld.ls,
              !.right_scale    = sld.rs,
              !.saturation     = 100 + sld.sat,
              !.brightness     = 100 + sld.bri]

NoThread ==
    [pc |-> "none", out_dir |-> None, start_idx |-> 0, total |-> 0,
     reps |-> <<>>, i |-> 0, log |-> <<>>]

Composer == env.program = "composer" /\ alive

\* ImagePool._add with one file picked in the dialog
_add ==
    /\ Composer
    /\ \E p \in PoolNames : \E f \in PoolFiles(p) :
          /\ ~InSeq(f, pool[p])
          /\ pool' = [pool EXCEPT ![p] = Append(@, f)]
    /\ UNCHANGED <<remover_vars, env, units, alive, sld, state, session, controls,
                   preview_timer, lbl_preview, gen_thread, written>>

\* ImagePool._del with one row selected
_del ==
    /\ Composer
    /\ \E p \in PoolNames : \E k \in 1..Len(pool[p]) :
          pool' = [pool EXCEPT ![p] =
                      SubSeq(@, 1, k - 1) \o SubSeq(@, k + 1, Len(@))]
    /\ UNCHANGED <<remover_vars, env, units, alive, sld, state, session, controls,
                   preview_timer, lbl_preview, gen_thread, written>>

\* a slider is moved: valueChanged -> MainWindow._on_slider_changed
_on_slider_changed ==
    /\ Composer
    /\ \E s \in SliderNames : \E v \in SliderValues(s) :
          /\ v # sld[s]
          /\ sld' = [sld EXCEPT ![s] = v]
    /\ preview_timer' = TRUE
    /\ UNCHANGED <<remover_vars, env, units, alive, pool, state, session, controls,
                   lbl_preview, gen_thread, written>>

\* MainWindow.resizeEvent
resizeEvent ==
    /\ Composer
    /\ state.locked
    /\ ~preview_timer
    /\ preview_timer' = TRUE
    /\ UNCHANGED <<remover_vars, env, units, alive, widgets, state, session, controls,
                   lbl_preview, gen_thread, written>>

\* MainWindow._do_preview, run when the debounce timer fires
_do_preview ==
    /\ Composer
    /\ preview_timer
    /\ preview_timer' = FALSE
    /\ IF ~state.locked
       THEN UNCHANGED <<state, lbl_preview>>
       ELSE /\ state' = _sync_state(state)
            /\ lbl_preview' = IF pool.rep = <<>> THEN lbl_preview ELSE "pixmap"
    /\ UNCHANGED <<remover_vars, env, units, alive, widgets, session, controls,
                   gen_thread, written>>

\* MainWindow._randomize
_randomize ==
    /\ Composer
    /\ btn_rand
    /\ UNCHANGED <<remover_vars, env, units, alive, widgets, session, btn_rand,
                   btn_new, prog_visible, preview_timer, gen_thread, written>>
    /\ LET s1 == _sync_state(state) IN
       IF s1.backgrounds = <<>> \/ s1.rep_images = <<>>
       THEN /\ state' = s1
            /\ UNCHANGED <<btn_gen, lbl_preview>>
       ELSE /\ lbl_preview' = "pixmap"
            /\ btn_gen' = TRUE
            /\ \E s2 \in randomize(s1) : state' = s2

\* MainWindow._generate
_generate ==
    /\ Composer
    /\ btn_gen
    /\ file_counter <= MaxSeq
    /\ LET s1 == _sync_state(state) IN
       /\ state' = s1
       /\ IF ~s1.locked \/ s1.rep_images = <<>>
          THEN UNCHANGED <<out_dir, controls, gen_thread>>
          ELSE \E d \in (IF out_dir = None THEN Dirs \cup {None} ELSE {out_dir}) :
                 IF d = None
                 THEN UNCHANGED <<out_dir, controls, gen_thread>>
                 ELSE /\ out_dir' = d
                      /\ prog_visible' = TRUE
                      /\ btn_gen' = FALSE
                      /\ btn_rand' = FALSE
                      /\ btn_new' = FALSE
                      /\ gen_thread' = [NoThread EXCEPT !.pc = "started",
                                            !.out_dir = d,
                                            !.start_idx = file_counter]
    /\ UNCHANGED <<remover_vars, env, units, alive, widgets, file_counter, preview_timer,
                   lbl_preview, written>>

\* MainWindow._on_generate_done: the queued sig_done is delivered
_on_generate_done ==
    /\ Composer
    /\ gen_thread.pc = "done_emitted"
    /\ file_counter' = file_counter + gen_thread.total
    /\ prog_visible' = FALSE
    /\ btn_gen' = TRUE
    /\ btn_rand' = TRUE
    /\ btn_new' = TRUE
    /\ gen_thread' = [NoThread EXCEPT !.pc = "finished"]
    /\ UNCHANGED <<remover_vars, env, units, alive, widgets, state, out_dir, preview_timer,
                   lbl_preview, written>>

\* MainWindow._new_project, answered Yes
_new_project ==
    /\ Composer
    /\ btn_new
    /\ state' = reset
    /\ pool' = [p \in PoolNames |-> <<>>]
    /\ lbl_preview' = "text"
    /\ sld' = [s \in SliderNames |-> SliderDefault(s)]
    /\ preview_timer' = (preview_timer \/ sld' # sld)
    /\ btn_gen' = FALSE
    /\ out_dir' = None
    /\ file_counter' = 1
    /\ written' = {}
    /\ UNCHANGED <<remover_vars, env, units, alive, btn_rand, btn_new, prog_visible, gen_thread>>

---------------------------------------------------------------------------
(* GenerateThread.run, step by step                                        *)

GenUnchanged ==
    UNCHANGED <<remover_vars, env, units, widgets, state, session, controls,
                preview_timer, lbl_preview>>

\* total = len(self.state.rep_images)
GenReadTotal ==
    /\ Composer
    /\ gen_thread.pc = "started"
    /\ gen_thread' = [gen_thread EXCEPT !.pc = "total_read",
                                        !.total = Len(state.rep_images)]
    /\ UNCHANGED <<alive, written>>
    /\ GenUnchanged

\* enumerate(self.state.rep_images): the list object iterated
GenEnterLoop ==
    /\ Composer
    /\ gen_thread.pc = "total_read"
    /\ gen_thread' = [gen_thread EXCEPT !.pc = "loop",
                                        !.reps = state.rep_images, !.i = 0]
    /\ UNCHANGED <<alive, written>>
    /\ GenUnchanged

\* img = self.state.compose(rep_path)
GenCompose ==
    /\ Composer
    /\ gen_thread.pc = "loop"
    /\ gen_thread.i < Len(gen_thread.reps)
    /\ gen_thread' = [gen_thread EXCEPT !.pc = "save",
          !.log = Append(@, <<"compose", gen_thread.reps[gen_thread.i + 1]>>)]
    /\ UNCHANGED <<alive, written>>
    /\ GenUnchanged

\* GenSave_skipped: a step that goes on without writing the file
GenSave_skipped ==
    /\ Composer
    /\ gen_thread.pc = "save"
    /\ gen_thread' = [gen_thread EXCEPT !.pc = "emit"]
    /\ UNCHANGED <<alive, written>>
    /\ GenUnchanged

\* img.save(os.path.join(out_dir, f'{start_idx + i:03d}.png')): the file is
\* written, or the write raises and the unhandled exception ends the process
GenSave ==
    /\ Composer
    /\ gen_thread.pc = "save"
    /\ \/ /\ written' = written \cup {gen_thread.start_idx + gen_thread.i}
          /\ gen_thread' = [gen_thread EXCEPT !.pc = "emit",
                !.log = Append(@, <<"file", gen_thread.start_idx + gen_thread.i>>)]
          /\ UNCHANGED alive
       \/ /\ gen_thread' = [gen_thread EXCEPT !.pc = "raised"]
          /\ alive' = FALSE
          /\ UNCHANGED written
    /\ GenUnchanged

\* self.sig_progress.emit(int((i + 1) / total * 100))
GenProgress ==
    /\ Composer
    /\ gen_thread.pc = "emit"
    /\ IF gen_thread.total = 0
       THEN /\ gen_thread' = [gen_thread EXCEPT !.pc = "raised"]
            /\ alive' = FALSE
       ELSE /\ gen_thread' = [gen_thread EXCEPT !.pc = "loop", !.i = @ + 1,
                  !.log = Append(@, <<"progress",
                     ((gen_thread.i + 1) * 100) \div gen_thread.total>>)]
            /\ UNCHANGED alive
    /\ UNCHANGED written
    /\ GenUnchanged

\* self.sig_done.emit(self.out_dir, total)
GenDone ==
    /\ Composer
    /\ gen_thread.pc = "loop"
    /\ gen_thread.i = Len(gen_thread.reps)
    /\ gen_thread' = [gen_thread EXCEPT !.pc = "done_emitted",
                                        !.log = Append(@, <<"done", gen_thread.total>>)]
    /\ UNCHANGED <<alive, written>>
    /\ GenUnchanged

---------------------------------------------------------------------------
(* Background remover: RemoveThread and MainWindow (src/bg_remove.py)      *)

Remover == env.program = "bg_remove" /\ alive

\* os.path.join(os.path.expanduser('~'), '.u2net', 'u2netp.onnx')
MODEL_PATH == "~/.u2net/u2netp.onnx"

\* os.path.splitext(os.path.basename(src_path))[0] + '.png'
OutName(src_path) ==
    CASE src_path = "a/x.jpg"   -> "x.png"
      [] src_path = "b/x.png"   -> "x.png"
      [] src_path = "a/bad.jpg" -> "bad.png"

\* Image.open(src_path) succeeds
Decodable(src_path) == src_path # "a/bad.jpg"

Running(t) == t.pc \notin {"done_emitted", "error_emitted", "finished"}

\* MainWindow._refresh_btn: the value it gives btn_run
_refresh_btn(l, d) == Len(l) > 0 /\ d # None

\* MainWindow._add_paths with one path
_add_paths(p) ==
    /\ ~InSeq(p, lst)
    /\ lst' = Append(lst, p)
    /\ btn_run' = _refresh_btn(lst', _out_dir)
    /\ UNCHANGED <<env, units, alive, prog_visible, composer_vars, _out_dir, btn_add,
                   threads, disk>>

\* MainWindow._add_images: the add button, one file picked
_add_images ==
    /\ Remover
    /\ btn_add
    /\ \E p \in env.images : _add_paths(p)

\* DropListWidget.dropEvent: a file dropped on the list
dropEvent ==
    /\ Remover
    /\ \E p \in env.images : _add_paths(p)

\* MainWindow._del_image with one row selected
_del_image ==
    /\ Remover
    /\ \E k \in 1..Len(lst) :
          lst' = SubSeq(lst, 1, k - 1) \o SubSeq(lst, k + 1, Len(lst))
    /\ btn_run' = _refresh_btn(lst', _out_dir)
    /\ UNCHANGED <<env, units, alive, prog_visible, composer_vars, _out_dir, btn_add,
                   threads, disk>>

\* MainWindow._select_dir: a folder chosen, or the dialog cancelled (None)
_select_dir ==
    /\ Remover
    /\ \E d \in env.dirs \cup {None} :
          _out_dir' = IF d # None THEN d ELSE _out_dir
    /\ btn_run' = _refresh_btn(lst, _out_dir')
    /\ UNCHANGED <<env, units, alive, prog_visible, composer_vars, lst, btn_add,
                   threads, disk>>

NewRemoveThread(paths, dir) ==
    [pc |-> "started", paths |-> paths, out_dir |-> dir, i |-> 0,
     first |-> TRUE, log |-> <<>>]

\* MainWindow._run.  Rebinding self._thread drops the only reference to the
\* previous RemoveThread; when that thread is still running it is either kept
\* alive by its own run() frame or destroyed while running, which aborts
\* the process.
_run ==
    /\ Remover
    /\ btn_run
    /\ Len(threads) < MaxRuns
    /\ prog_visible' = TRUE
    /\ btn_run' = FALSE
    /\ btn_add' = FALSE
    /\ threads' = Append(threads, NewRemoveThread(lst, _out_dir))
    /\ \/ UNCHANGED alive
       \/ /\ threads # <<>>
          /\ Running(threads[Len(threads)])
          /\ alive' = FALSE
    /\ UNCHANGED <<env, units, composer_vars, lst, _out_dir, disk>>

\* MainWindow._on_done: a queued sig_done is delivered
_on_done ==
    /\ Remover
    /\ \E k \in 1..Len(threads) :
          /\ threads[k].pc = "done_emitted"
          /\ threads' = [threads EXCEPT ![k] =
                [NewRemoveThread(<<>>, None) EXCEPT !.pc = "finished",
                                                    !.first = FALSE]]
    /\ prog_visible' = FALSE
    /\ btn_run' = TRUE
    /\ btn_add' = TRUE
    /\ lst' = <<>>
    /\ UNCHANGED <<env, units, alive, composer_vars, _out_dir, disk>>

\* MainWindow._on_error: a queued sig_error is delivered
_on_error ==
    /\ Remover
    /\ \E k \in 1..Len(threads) :
          /\ threads[k].pc = "error_emitted"
          /\ threads' = [threads EXCEPT ![k] =
                [NewRemoveThread(<<>>, None) EXCEPT !.pc = "finished",
                                                    !.first = FALSE]]
    /\ prog_visible' = FALSE
    /\ btn_run' = TRUE
    /\ btn_add' = TRUE
    /\ UNCHANGED <<env, units, alive, composer_vars, lst, _out_dir, disk>>

RmUnchanged ==
    UNCHANGED <<env, units, alive, prog_visible, composer_vars, lst, _out_dir,
                btn_run, btn_add>>

\* thread k moves to pc with the events appended to its log
RmStep(k, pc, events) ==
    threads' = [threads EXCEPT ![k].pc = pc, ![k].log = @ \o events]

\* RmCheckModel_unchecked: the run goes on to the import without looking
\* for the model file
RmCheckModel_unchecked ==
    /\ Remover
    /\ \E k \in 1..Len(threads) :
          /\ threads[k].pc = "started"
          /\ RmStep(k, "import", <<>>)
    /\ UNCHANGED disk
    /\ RmUnchanged

\* if not os.path.exists(MODEL_PATH): sig_error (the message holds
\* MODEL_PATH), return
RmCheckModel ==
    /\ Remover
    /\ \E k \in 1..Len(threads) :
          /\ threads[k].pc = "started"
          /\ IF env.model_exists
             THEN RmStep(k, "import", <<>>)
             ELSE RmStep(k, "error_emitted", <<<<"error", MODEL_PATH>>>>)
    /\ UNCHANGED disk
    /\ RmUnchanged

\* import onnxruntime: on failure sig_error, return
RmImport ==
    /\ Remover
    /\ \E k \in 1..Len(threads) :
          /\ threads[k].pc = "import"
          /\ IF env.onnxruntime
             THEN RmStep(k, "loop", <<>>)
             ELSE RmStep(k, "error_emitted", <<<<"error", "onnxruntime">>>>)
    /\ UNCHANGED disk
    /\ RmUnchanged

\* the head of the loop body: sig_progress.emit(int(i / total * 100), fname)
RmProgress ==
    /\ Remover
    /\ \E k \in 1..Len(threads) :
          LET t == threads[k] IN
          /\ t.pc = "loop"
          /\ t.i < Len(t.paths)
          /\ RmStep(k, "process",
                    <<<<"progress", (t.i * 100) \div Len(t.paths)>>>>)
    /\ UNCHANGED disk
    /\ RmUnchanged

\* Image.open(src_path), remove_background(img) and, for the first result
\* of the batch, sig_preview; an exception emits sig_error and returns
RmProcess ==
    /\ Remover
    /\ \E k \in 1..Len(threads) :
          LET t == threads[k]
              src == t.paths[t.i + 1]
          IN
          /\ t.pc = "process"
          /\ IF Decodable(src)
             THEN threads' = [threads EXCEPT ![k].pc = "save",
                     ![k].first = FALSE,
                     ![k].log = @ \o <<<<"result", src>>>> \o
                                (IF t.first THEN <<<<"preview", src>>>> ELSE <<>>)]
             ELSE RmStep(k, "error_emitted", <<<<"error", OutName(src)>>>>)
    /\ UNCHANGED disk
    /\ RmUnchanged

\* result.save(os.path.join(self.out_dir, fname), 'PNG')
RmSave ==
    /\ Remover
    /\ \E k \in 1..Len(threads) :
          LET t == threads[k]
              fname == OutName(t.paths[t.i + 1])
          IN
          /\ t.pc = "save"
          /\ disk' = disk \cup {fname}
          /\ threads' = [threads EXCEPT ![k].pc = "loop", ![k].i = @ + 1,
                            ![k].log = @ \o <<<<"file", fname>>>>]
    /\ RmUnchanged

\* after the loop: sig_progress.emit(100, ...), sig_done.emit(out_dir, total)
RmDone ==
    /\ Remover
    /\ \E k \in 1..Len(threads) :
          LET t == threads[k] IN
          /\ t.pc = "loop"
          /\ t.i = Len(t.paths)
          /\ RmStep(k, "done_emitted",
                    <<<<"progress", 100>>, <<"done", Len(t.paths)>>>>)
    /\ UNCHANGED disk
    /\ RmUnchanged

---------------------------------------------------------------------------
\* MainWindow.__init__ of the composer
ComposerInit ==
    /\ pool = [p \in PoolNames |-> <<>>]
    /\ sld = [s \in SliderNames |-> SliderDefault(s)]
    /\ state = reset
    /\ out_dir = None
    /\ file_counter = 1
    /\ btn_gen = FALSE
    /\ btn_rand = TRUE
    /\ btn_new = TRUE
    /\ preview_timer = FALSE
    /\ lbl_preview = "text"
    /\ gen_thread = NoThread
    /\ written = {}

\* MainWindow.__init__ of the background remover
RemoverInit ==
    /\ lst = <<>>
    /\ _out_dir = None
    /\ btn_run = FALSE
    /\ btn_add = TRUE
    /\ threads = <<>>
    /\ disk = {}

\* the image operations modelled on their own are idle in a program run
UnitsIdle ==
    /\ thumb = None
    /\ calls = <<>>
    /\ mask = None

Init ==
    /\ env \in Environments
    /\ alive = TRUE
    /\ prog_visible = FALSE
    /\ ComposerInit
    /\ RemoverInit
    /\ UnitsIdle

Next ==
    \/ _add
    \/ _del
    \/ _on_slider_changed
    \/ resizeEvent
    \/ _do_preview
    \/ _randomize
    \/ _generate
    \/ _on_generate_done
    \/ _new_project
    \/ GenReadTotal
    \/ GenEnterLoop
    \/ GenCompose
    \/ GenSave
    \/ GenProgress
    \/ GenDone
    \/ _add_images
    \/ dropEvent
    \/ _del_image
    \/ _select_dir
    \/ _run
    \/ _on_done
    \/ _on_error
    \/ RmCheckModel
    \/ RmImport
    \/ RmProgress
    \/ RmProcess
    \/ RmSave
    \/ RmDone

Spec == Init /\ [][Next]_vars

---------------------------------------------------------------------------
(* The image operations on their own: the fitting of the representative    *)
(* image in compose and the fragment removal of remove_background, applied *)
(* to inputs drawn from bounded sets.                                      *)

\* the natural widths and heights of the representative images: 1, 500 and
\* the multiples of REP_MAX / 2 with their neighbours
RepSides ==
    {1, 500} \cup
    {(REP_MAX \div 2) * k + d : k \in 1..MaxHalves, d \in {-1, 0, 1}}

\* rep = Image.open(rep_path): an image of natural size W x H
OpenedRep(W, H) ==
    [pc |-> "opened", natural |-> <<W, H>>, size |-> <<W, H>>,
     x |-> 0, y |-> 0]

\* rep.thumbnail((REP_MAX, REP_MAX)); rx, ry = the centred corner;
\* canvas.paste(rep, (rx, ry), rep)
ThumbnailRep ==
    /\ env.program = "thumbnail"
    /\ thumb.pc = "opened"
    /\ LET tsz == thumbnail(thumb.natural) IN
          thumb' = [thumb EXCEPT !.pc = "pasted", !.size = tsz,
                                 !.x = centre(tsz[1], CANVAS_W),
                                 !.y = centre(tsz[2], CANVAS_H)]
    /\ UNCHANGED <<env, calls, mask, alive, prog_visible, composer_vars,
                   remover_vars>>

\* the Composer States compose is called on: a committed layout with or
\* without a background, a left and a right decoration, each decodable or
\* not; at scale 0.5 both decorations reach under the representative image
ComposeStates ==
    {[reset EXCEPT !.locked = TRUE,
                   !.current_bg = b, !.current_left = l, !.current_right = r,
                   !.left_pos = <<0, 450>>, !.right_pos = <<1206, 700>>,
                   !.left_scale = ls, !.right_scale = rs,
                   !.saturation = sat, !.brightness = bri] :
        b \in {None, "bg.png", "corrupt.png"},
        l \in {None, "banner.png", "corrupt.png"},
        r \in {None, "wall.png"},
        ls \in {50, 100}, rs \in {50, 100},
        sat \in {100, 150}, bri \in {50, 100}}

\* the representative images compose is called with
ComposeReps == {None, "rep_a.png", "rep_b.png", "corrupt.png"}

\* one call, self.state.compose(rep_path): the state before the call, the
\* image returned and the state after it
ComposeCall ==
    /\ env.program = "compose"
    /\ Len(calls) < MaxCalls
    /\ UNCHANGED <<env, thumb, mask, alive, prog_visible, remover_vars,
                   composer_vars>>
    /\ \E r \in ComposeReps :
          calls' = Append(calls, [rep_path |-> r, before |-> state,
                                  result |-> compose(state, r),
                                  after |-> state'])

\* what the program does between two calls without touching the state: a
\* batch is counted (file_counter += count) and a slider is moved
BetweenCalls ==
    /\ env.program = "compose"
    /\ file_counter <= MaxSeq
    /\ file_counter' = file_counter + 1
    /\ \E v \in {0, 50} : sld' = [sld EXCEPT !.sat = v]
    /\ UNCHANGED <<env, units, alive, prog_visible, remover_vars, pool, state,
                   out_dir, btn_gen, btn_rand, btn_new, preview_timer,
                   lbl_preview, gen_thread, written>>

\* the pixels of a mask, and the position of a pixel in row-major order
Pixels == (1..MaskSide) \X (1..MaskSide)
PixelIndex(p) == (p[2] - 1) * MaskSide + p[1]

\* mask = (out * 255).astype(np.uint8): the pixels of F are above 127 (each
\* with its own value), the others are 127 or 0
NormalizedMask(F) ==
    [p \in Pixels |->
        IF p \in F THEN 128 + 5 * PixelIndex(p)
        ELSE IF PixelIndex(p) % 2 = 1 THEN 127 ELSE 0]

\* cv2.threshold(mask, 127, 255, cv2.THRESH_BINARY)
threshold(m) == [p \in Pixels |-> IF m[p] > 127 THEN 255 ELSE 0]

\* two pixels that touch by a side or a corner (connectivity=8)
Adjacent(p, q) ==
    /\ p # q
    /\ Abs(p[1] - q[1]) <= 1
    /\ Abs(p[2] - q[2]) <= 1

\* the pixels of fg reached from S through adjacent pixels
RECURSIVE Flood(_, _)
Flood(S, fg) ==
    LET more == S \cup {q \in fg : \E p \in S : Adjacent(p, q)}
    IN  IF more = S THEN S ELSE Flood(more, fg)

\* cv2.connectedComponentsWithStats(binary, connectivity=8): the foreground
\* components (labels 1 .. num_labels - 1; label 0 is the background)
connectedComponents(binary) ==
    LET fg == {p \in Pixels : binary[p] = 255}
    IN  {Flood({p}, fg) : p \in fg}

\* cv2.bitwise_and(mask, binary) at one pixel, binary being 255 or 0
bitwise_and(a, b) == IF b = 255 THEN a ELSE 0

\* remove_fragments_binary: the binary image of the largest component
\* returned in place of the masked alpha values
remove_fragments_binary(m) ==
    LET comps == connectedComponents(threshold(m))
        largest == {c \in comps :
                       \A d \in comps : Cardinality(d) <= Cardinality(c)}
    IN  IF 1 + Cardinality(comps) > 2
        THEN {[p \in Pixels |-> IF p \in c THEN 255 ELSE 0] : c \in largest}
        ELSE {m}

\* the fragment removal of remove_background: the masks it can return.
\* np.argmax takes the first label of the largest area; the order in which
\* cv2 numbers components of equal area is not specified, so each of them
\* may be the one kept.
remove_fragments(m) ==
    LET comps == connectedComponents(threshold(m))
        num_labels == 1 + Cardinality(comps)
        largest == {c \in comps :
                       \A d \in comps : Cardinality(d) <= Cardinality(c)}
    IN  IF num_labels > 2
        THEN {[p \in Pixels |->
                  bitwise_and(m[p], IF p \in c THEN 255 ELSE 0)] : c \in largest}
        ELSE {m}

\* lines 77-84 of remove_background applied to the normalised mask
FragmentRemoval ==
    /\ env.program = "remove_background"
    /\ mask.pc = "normalized"
    /\ \E out \in remove_fragments(mask.inp) :
          mask' = [pc |-> "filtered", inp |-> mask.inp, out |-> out]
    /\ UNCHANGED <<env, thumb, calls, alive, prog_visible, composer_vars,
                   remover_vars>>

UnitInit ==
    /\ alive = TRUE
    /\ prog_visible = FALSE
    /\ RemoverInit
    /\ \/ /\ env = [program |-> "thumbnail"]
          /\ ComposerInit
          /\ thumb \in {OpenedRep(W, H) : W \in RepSides, H \in RepSides}
          /\ calls = <<>>
          /\ mask = None
       \/ /\ env = [program |-> "compose"]
          /\ pool = [p \in PoolNames |-> <<>>]
          /\ sld = [s \in SliderNames |-> SliderDefault(s)]
          /\ state \in ComposeStates
          /\ out_dir = None
          /\ file_counter = 1
          /\ btn_gen = TRUE
          /\ btn_rand = TRUE
          /\ btn_new = TRUE
          /\ preview_timer = FALSE
          /\ lbl_preview = "text"
          /\ gen_thread = NoThread
          /\ written = {}
          /\ thumb = None
          /\ calls = <<>>
          /\ mask = None
       \/ /\ env = [program |-> "remove_background"]
          /\ ComposerInit
          /\ thumb = None
          /\ calls = <<>>
          /\ mask \in {[pc |-> "normalized", inp |-> NormalizedMask(F),
                        out |-> NormalizedMask(F)] : F \in SUBSET Pixels}

UnitNext ==
    \/ ThumbnailRep
    \/ ComposeCall
    \/ BetweenCalls
    \/ FragmentRemoval

UnitSpec == UnitInit /\ [][UnitNext]_vars

---------------------------------------------------------------------------
(* Claims                                                                  *)

\* the committed selection and placement
Selection(s) ==
    <<s.current_bg, s.current_left, s.current_right, s.left_pos, s.right_pos>>

\* the GenerateThread has been started and has not emitted sig_done
GenInFlight ==
    gen_thread.pc \in {"started", "total_read", "loop", "save", "emit"}

\* C1: a randomize request made while the background pool or the
\* representative pool is empty, and a generate request made while no layout
\* is locked or the representative pool is empty, leaves every field of the
\* ComposerState as it was.
C1_RejectedRequestLeavesState ==
    [][ ( \/ (_randomize /\ (pool.bg = <<>> \/ pool.rep = <<>>))
          \/ (_generate /\ (~state.locked \/ pool.rep = <<>>)) )
        => state' = state ]_vars

\* the range claim of C2 for one axis: inside [lo, hi - size] when the
\* image fits, the single point lo when it does not
InRange(v, size, lo, hi) ==
    IF size <= hi - lo THEN lo <= v /\ v <= hi - size ELSE v = lo

PlacedInZone(s) ==
    /\ s.current_left # None =>
          LET sz == _img_size(s.current_left, s.left_scale) IN
          /\ InRange(s.left_pos[1], sz[1], 0, 594)
          /\ InRange(s.left_pos[2], sz[2], 0, 1200)
    /\ s.current_right # None =>
          LET sz == _img_size(s.current_right, s.right_scale) IN
          /\ InRange(s.right_pos[1], sz[1], 1206, 1800)
          /\ InRange(s.right_pos[2], sz[2], 0, 1200)

\* C2: after every accepted randomize, each selected decoration of scaled
\* size w x h has its left position in 0..594-w, its right position in
\* 1206..1800-w and y in 0..1200-h; a range that would be empty is the
\* single point at its start (x = 0, x = 1206, y = 0).
C2_RandomizedPositionInZone ==
    [][ (state'.locked /\ PlacedInZone(state'))
        \/ ~(pool.bg # <<>> /\ pool.rep # <<>> /\ _randomize) ]_vars

\* a small left decoration drawn at the far corner of its range and a right
\* decoration wider than its zone pinned to the zone start
C2_Witness ==
    /\ state.locked
    /\ state.current_left = "leaf.png"
    /\ state.left_scale = 50
    /\ state.left_pos = <<494, 1100>>
    /\ state.current_right = "wall.png"
    /\ state.right_scale = 50
    /\ state.right_pos[1] = 1206

\* the decoration layers compose pastes for the representative images at hand
Range(seq) == {seq[k] : k \in 1..Len(seq)}
DecorationLayers ==
    UNION {Range(compose(state, r).layers) : r \in env.files.rep}

PastedDecorations ==
    IF env.program = "composer"
    THEN {l \in DecorationLayers : l.layer \in {"left", "right"}}
    ELSE {}

StoredPos(l) == IF l.layer = "left" THEN state.left_pos ELSE state.right_pos

\* C3 as stated: every decoration is pasted at (x, y) with 0 <= x <= 1800 - w
\* and 0 <= y <= 1200 - h.
C3_PastedBoxInsideCanvas ==
    \A l \in PastedDecorations :
        /\ 0 <= l.x /\ l.x <= 1800 - l.w
        /\ 0 <= l.y /\ l.y <= 1200 - l.h

\* C3 amended: every decoration is pasted at (x, y) with
\* 0 <= x <= max(0, 1800 - w) and 0 <= y <= max(0, 1200 - h); a stored
\* coordinate already in that range is used unchanged; so the box lies
\* inside the canvas on every axis on which the resized image fits.
C3_PastedBoxClamped ==
    \A l \in PastedDecorations :
        /\ 0 <= l.x /\ l.x <= Max(0, 1800 - l.w)
        /\ 0 <= l.y /\ l.y <= Max(0, 1200 - l.h)
        /\ (l.w <= 1800 => l.x + l.w <= 1800)
        /\ (l.h <= 1200 => l.y + l.h <= 1200)
        /\ (0 <= StoredPos(l)[1] /\ StoredPos(l)[1] <= 1800 - l.w
               => l.x = StoredPos(l)[1])
        /\ (0 <= StoredPos(l)[2] /\ StoredPos(l)[2] <= 1200 - l.h
               => l.y = StoredPos(l)[2])

\* the right decoration was placed at scale 0.5, the scale was then raised
\* to 1.0 without a new randomize, and the paste position is pulled back
C3_Witness ==
    /\ state.locked
    /\ state.current_right = "wall.png"
    /\ state.right_scale = 100
    /\ state.right_pos = <<1206, 700>>
    /\ \E l \in PastedDecorations :
          l.layer = "right" /\ l.x = 400 /\ l.y = 200 /\ l.w = 1400 /\ l.h = 1000

\* C4: the selected background and decorations and the stored positions
\* change only in randomize and in a full reset.
C4_SelectionChangesOnlyInRandomize ==
    [][ Selection(state') # Selection(state) => (_randomize \/ _new_project) ]_vars

\* the left scale was raised after the placement (y = 450 is drawn only at
\* scale 0.5) and the stored position is still the one drawn
C4_Witness ==
    /\ state.locked
    /\ state.current_left = "banner.png"
    /\ state.left_scale = 100
    /\ state.left_pos = <<0, 450>>

\* C5: once locked, the state stays locked through every operation but a
\* full reset.
C5_LockedUntilReset ==
    [][ (state.locked /\ ~state'.locked) => _new_project ]_vars

\* a batch has run to its end after the randomize and the layout is locked
C5_Witness ==
    /\ state.locked
    /\ gen_thread.pc = "finished"
    /\ file_counter > 1

\* C6: at most one batch worker is running (started and not yet reported).
C6_AtMostOneBatch ==
    /\ Cardinality({k \in 1..Len(threads) : Running(threads[k])}) <= 1
    /\ (GenInFlight => threads = <<>>)

\* C7: while a compositing batch is in flight no field of the ComposerState
\* changes.
C7_StateFrozenDuringBatch ==
    [][ (GenInFlight /\ GenInFlight') => state' = state ]_vars

\* the terminal reports (success summary, fatal error) in a worker's log
Terminal(log) == SelectSeq(log, LAMBDA e : e[1] \in {"done", "error"})

\* C8: a batch that has ended has emitted exactly one terminal report.
C8_EndedBatchHasOneReport ==
    /\ gen_thread.pc \in {"done_emitted", "raised"}
          => Len(Terminal(gen_thread.log)) = 1
    /\ \A k \in 1..Len(threads) :
          threads[k].pc \in {"done_emitted", "error_emitted"}
             => Len(Terminal(threads[k].log)) = 1

\* C9: the file about to be written has a number no earlier write of the
\* session used.
C9_NoSequenceNumberReused ==
    gen_thread.pc = "save"
       => (gen_thread.start_idx + gen_thread.i) \notin written

\* events of one kind, and the events before position p
OfKind(log, kinds) == SelectSeq(log, LAMBDA e : e[1] \in kinds)
Before(log, p) == SubSeq(log, 1, p - 1)

\* the log of one batch over the list paths: image j is taken up (in list
\* order) only after the files and progress events of the images before it,
\* progress never decreases, and the summary comes last, after one file per
\* image.  lead is the number of progress events emitted ahead of an image.
OrderedLog(log, paths, lead) ==
    /\ \A p \in 1..Len(log) :
          log[p][1] \in {"compose", "result"} =>
             LET j == Len(OfKind(Before(log, p), {"compose", "result"})) IN
             /\ j < Len(paths)
             /\ log[p][2] = paths[j + 1]
             /\ Len(OfKind(Before(log, p), {"file"})) = j
             /\ Len(OfKind(Before(log, p), {"progress"})) = j + lead
    /\ LET pr == OfKind(log, {"progress"}) IN
          \A a \in 1..Len(pr) : \A b \in a..Len(pr) : pr[a][2] <= pr[b][2]
    /\ \A p \in 1..Len(log) :
          log[p][1] = "done" =>
             /\ p = Len(log)
             /\ Len(OfKind(log, {"file"})) = Len(paths)
             /\ Len(OfKind(log, {"compose", "result"})) = Len(paths)

\* C10: within a batch the images are processed one after another in list
\* order, each file and progress event before the next image is taken up,
\* progress never decreases, and the summary follows the last file.
C10_SequentialInPoolOrder ==
    /\ gen_thread.pc \in {"loop", "save", "emit", "done_emitted"}
          => OrderedLog(gen_thread.log, gen_thread.reps, 0)
    /\ \A k \in 1..Len(threads) :
          OrderedLog(threads[k].log, threads[k].paths, 1)

\* a compositing batch of two images has emitted its summary
C10_Witness ==
    /\ gen_thread.pc = "done_emitted"
    /\ Len(gen_thread.reps) = 2
    /\ Len(gen_thread.log) = 7

---------------------------------------------------------------------------
\* the representative images at hand in a composer session, and none
RepsAtHand == IF env.program = "composer" THEN env.files.rep \cup {None} ELSE {}

\* the place of a layer in the order gray canvas, background, left
\* decoration, right decoration, representative image
Rank(name) ==
    CASE name = "canvas" -> 0
      [] name = "bg"     -> 1
      [] name = "left"   -> 2
      [] name = "right"  -> 3
      [] name = "rep"    -> 4

Covers(l, pt) ==
    /\ l.x <= pt[1] /\ pt[1] < l.x + l.w
    /\ l.y <= pt[2] /\ pt[2] < l.y + l.h

\* the layer seen at a point of the canvas: the last one pasted over it
Shown(img, pt) ==
    LET over == {k \in 1..Len(img.layers) : Covers(img.layers[k], pt)}
    IN  img.layers[CHOOSE k \in over : \A m \in over : m <= k]

\* points of the canvas: the centre, a point where the left decoration and
\* one where the right decoration reaches under the representative image,
\* a point of each zone away from the centre
SamplePoints ==
    {<<900, 600>>, <<700, 500>>, <<1120, 750>>, <<100, 1000>>, <<1500, 1000>>}

\* the order of one composed image
InFixedOrder(img) ==
    LET n == Len(img.layers)
        m == Len(img.ops)
    IN  /\ img.layers[1].layer = "canvas"
        /\ \A i, j \in 1..n :
              i < j => Rank(img.layers[i].layer) < Rank(img.layers[j].layer)
        /\ \A pt \in SamplePoints : \A k \in 1..n :
              Covers(img.layers[k], pt)
                 => Rank(img.layers[k].layer) <= Rank(Shown(img, pt).layer)
        /\ \A k \in 1..n : img.layers[k].layer = "rep" => k = n
        /\ m >= 4
        /\ img.ops[m - 2] = <<"convert", "RGB">>
        /\ img.ops[m - 1] = <<"enhance", "Color">>
        /\ img.ops[m] = <<"enhance", "Brightness">>
        /\ \A k \in 1..(m - 3) : img.ops[k][1] \in {"new", "paste", "error"}

\* C11: compose composites in the order gray canvas, background, left
\* decoration, right decoration, representative image: where layers
\* overlap the later one is seen, the representative image is topmost, and
\* saturation and then brightness are applied after the layers are
\* flattened.
C11_LayersInFixedOrder ==
    env.program = "compose" =>
        \A i \in 1..Len(calls) : InFixedOrder(calls[i].result)

\* all four layers are pasted: the representative image is seen over the
\* left decoration at (700, 500) and over the right one at (1120, 750),
\* the decorations over the background elsewhere in their zones
C11_Witness ==
    /\ env.program = "compose"
    /\ Len(calls) = 1
    /\ Len(calls[1].result.layers) = 5
    /\ Covers(calls[1].result.layers[3], <<700, 500>>)
    /\ Shown(calls[1].result, <<700, 500>>).layer = "rep"
    /\ Covers(calls[1].result.layers[4], <<1120, 750>>)
    /\ Shown(calls[1].result, <<1120, 750>>).layer = "rep"
    /\ Shown(calls[1].result, <<100, 1000>>).layer = "left"
    /\ Shown(calls[1].result, <<1500, 1000>>).layer = "right"

---------------------------------------------------------------------------
LayerNames == {"bg", "left", "right", "rep"}

\* the file each layer block of compose is given
Selected(s, rep_path) ==
    [bg |-> s.current_bg, left |-> s.current_left, right |-> s.current_right,
     rep |-> rep_path]

OpsAbout(img, name) == SelectSeq(img.ops, LAMBDA op : op[2] = name)
LayersOf(img, name) == SelectSeq(img.layers, LAMBDA l : l.layer = name)

\* one composed image against the files its layer blocks were given
Isolated(img, sel) ==
    /\ img.size = <<1800, 1200>>
    /\ \A n \in LayerNames :
          /\ sel[n] = None =>
                OpsAbout(img, n) = <<>> /\ LayersOf(img, n) = <<>>
          /\ sel[n] # None /\ Readable(sel[n]) =>
                /\ OpsAbout(img, n) = <<<<"paste", n>>>>
                /\ Len(LayersOf(img, n)) = 1
                /\ LayersOf(img, n)[1].path = sel[n]
          /\ sel[n] # None /\ ~Readable(sel[n]) =>
                /\ OpsAbout(img, n) = <<<<"error", n>>>>
                /\ LayersOf(img, n) = <<>>
    /\ \A i, j \in 1..Len(img.ops) :
          i < j /\ img.ops[i][2] \in LayerNames /\ img.ops[j][2] \in LayerNames
             => Rank(img.ops[i][2]) < Rank(img.ops[j][2])

\* the session has a file that cannot be decoded
HasUndecodable ==
    /\ env.program = "composer"
    /\ \E p \in PoolNames : env.files[p] \cap Unreadable # {}

\* C12: a failure in one layer of compose is caught for that layer alone:
\* in a session with undecodable files every selected layer that can be
\* decoded is pasted, in order, a layer that cannot is reported and left
\* out, compose returns an 1800x1200 canvas and raises nothing, and a
\* batch goes on with the remaining representative images.
C12_LayerFailureIsolated ==
    HasUndecodable =>
        /\ \A r \in RepsAtHand :
              Isolated(compose(state, r), Selected(state, r))
        /\ gen_thread.pc = "done_emitted" =>
              /\ Len(OfKind(gen_thread.log, {"compose"})) = Len(gen_thread.reps)
              /\ Len(OfKind(gen_thread.log, {"file"})) = Len(gen_thread.reps)
        /\ gen_thread.pc = "raised" =>
              gen_thread.log # <<>>
                 /\ gen_thread.log[Len(gen_thread.log)][1] \in {"compose", "file"}

\* a batch over an undecodable representative image and a good one has
\* ended with both files written; the background was pasted under the
\* image that failed
C12_Witness ==
    /\ gen_thread.pc = "done_emitted"
    /\ gen_thread.reps = <<"corrupt.png", "rep_a.png">>
    /\ Len(OfKind(gen_thread.log, {"file"})) = 2
    /\ state.current_bg = "bg.png"
    /\ compose(state, "corrupt.png").ops =
          <<<<"new", "canvas">>, <<"paste", "bg">>, <<"error", "rep">>>>
             \o enhance

---------------------------------------------------------------------------
\* C13: a representative image of natural size W x H is placed with a size
\* (w, h) of at most 700 x 700, unscaled when W and H are at most 700,
\* with its aspect ratio kept when it is scaled down (the longer side
\* becomes 700, the other one is within a pixel of its exact length), and
\* with its corner at x = (1800 - w) / 2, y = (1200 - h) / 2 in whole
\* pixels; 500x500 stays 500x500 at (650, 350) and 1400x700 becomes
\* 700x350 at (550, 425).
C13_RepFittedAndCentred ==
    env.program = "thumbnail" /\ thumb.pc = "pasted" =>
        LET W == thumb.natural[1]
            H == thumb.natural[2]
            w == thumb.size[1]
            h == thumb.size[2]
        IN  /\ 1 <= w /\ w <= 700 /\ 1 <= h /\ h <= 700
            /\ (W <= 700 /\ H <= 700) => (w = W /\ h = H)
            /\ (W > 700 \/ H > 700) =>
                  /\ Max(w, h) = 700
                  /\ (W >= H) = (w >= h) \/ w = h
                  /\ Abs(w * H - W * h) < Max(W, H)
            /\ thumb.x = (1800 - w) \div 2
            /\ thumb.y = (1200 - h) \div 2
            /\ Abs(2 * thumb.x + w - 1800) <= 1
            /\ Abs(2 * thumb.y + h - 1200) <= 1
            /\ thumb.natural = <<500, 500>> =>
                  thumb.size = <<500, 500>> /\ thumb.x = 650 /\ thumb.y = 350
            /\ thumb.natural = <<1400, 700>> =>
                  thumb.size = <<700, 350>> /\ thumb.x = 550 /\ thumb.y = 425

\* a 1400x1049 image has been scaled down to 700x525 (the exact height is
\* 524.5) and centred in whole pixels at (550, 337)
C13_Witness ==
    /\ env.program = "thumbnail"
    /\ thumb.pc = "pasted"
    /\ thumb.natural = <<1400, 1049>>
    /\ thumb.size = <<700, 525>>
    /\ thumb.x = 550
    /\ thumb.y = 337

---------------------------------------------------------------------------
---------------------------------------------------------------------------
\* C15: when the model file is absent, a background-removal batch ends with
\* one fatal error that names the expected path; no image is opened, no
\* progress or preview event is emitted, no output file is written, no
\* success summary is reported, and the worker neither retries nor goes on
\* to load the model.
C15_MissingModelIsFatal ==
    env.program = "bg_remove" /\ ~env.model_exists =>
        /\ disk = {}
        /\ \A k \in 1..Len(threads) :
              /\ threads[k].pc \in {"started", "error_emitted", "finished"}
              /\ threads[k].pc = "started" => threads[k].log = <<>>
              /\ threads[k].pc = "error_emitted" =>
                    threads[k].log = <<<<"error", MODEL_PATH>>>>
              /\ threads[k].i = 0

\* a batch over a listed image has ended with the error naming the path
C15_Witness ==
    /\ env.program = "bg_remove"
    /\ ~env.model_exists
    /\ Len(threads) = 1
    /\ threads[1].paths = <<"a/x.jpg">>
    /\ threads[1].pc = "error_emitted"
    /\ threads[1].log = <<<<"error", "~/.u2net/u2netp.onnx">>>>

---------------------------------------------------------------------------
\* the names of the files a RemoveThread has written
FilesOf(t) ==
    {OfKind(t.log, {"file"})[k][2] : k \in 1..Len(OfKind(t.log, {"file"}))}

\* C16: a background-removal batch over n input paths that ends with the
\* success summary has written n distinct PNG files, one per input, each
\* named by the source's base name with the extension replaced by .png,
\* and the count it reports is the number of files it produced.
C16_OneFilePerInput ==
    \A k \in 1..Len(threads) :
        LET t == threads[k] IN
        t.pc = "done_emitted" =>
            /\ t.log[Len(t.log)] = <<"done", Len(t.paths)>>
            /\ FilesOf(t) = {OutName(t.paths[j]) : j \in 1..Len(t.paths)}
            /\ Cardinality(FilesOf(t)) = Len(t.paths)
            /\ FilesOf(t) \subseteq disk

---------------------------------------------------------------------------
\* the 8-connected foreground components of a mask binarized at 127
Blobs(m) == connectedComponents(threshold(m))

\* C17: when the mask binarized at threshold 127 has more than one
\* 8-connected foreground component, the output mask keeps the original
\* alpha values exactly on the footprint of a component of the largest
\* pixel area and is 0 everywhere else; with at most one component the
\* mask is left unchanged.
C17_LargestBlobKept ==
    env.program = "remove_background" /\ mask.pc = "filtered" =>
        IF Cardinality(Blobs(mask.inp)) > 1
        THEN \E c \in Blobs(mask.inp) :
                /\ \A d \in Blobs(mask.inp) : Cardinality(d) <= Cardinality(c)
                /\ \A p \in Pixels :
                      mask.out[p] = IF p \in c THEN mask.inp[p] ELSE 0
        ELSE mask.out = mask.inp

\* a blob of area 3 (the left column) and a blob of area 1: the single
\* pixel and the faint pixels around it have become 0, the column has kept
\* its alpha values
C17_Witness ==
    /\ env.program = "remove_background"
    /\ mask.pc = "filtered"
    /\ Blobs(mask.inp) = {{<<1, 1>>, <<1, 2>>, <<1, 3>>}, {<<3, 2>>}}
    /\ mask.inp[<<3, 2>>] > 127
    /\ mask.out[<<3, 2>>] = 0
    /\ mask.inp[<<2, 2>>] = 127
    /\ mask.out[<<2, 2>>] = 0
    /\ \A p \in {<<1, 1>>, <<1, 2>>, <<1, 3>>} : mask.out[p] = mask.inp[p]

---------------------------------------------------------------------------
\* C18: in every reachable state of a composer session each committed
\* selection is empty or a member of its current pool.
C18_SelectionInPool ==
    env.program = "composer" =>
        /\ state.current_bg = None \/ InSeq(state.current_bg, state.backgrounds)
        /\ state.current_left = None
              \/ InSeq(state.current_left, state.left_elements)
        /\ state.current_right = None
              \/ InSeq(state.current_right, state.right_elements)
====
